---- MODULE Spec2Model ----
(***************************************************************************)
(* UP2D8 backend: the HTTP routes of main.py and of the api/ routers, and  *)
(* the get_db_client dependency of dependencies.py.                        *)
(*                                                                         *)
(* The repository holds two drafts of the user/session/message routes:     *)
(* main.py registers its own handlers on `app`, and api/users.py and       *)
(* api/chat.py define routers for the same paths.  One path is served by   *)
(* one handler, so a deployment runs one draft; `draft` says which.        *)
(***************************************************************************)
EXTENDS Integers, Sequences, FiniteSets, TLC

VARIABLES
    draft,       \* which draft of the routes is deployed
    req,         \* req[r]: the r-th request the server accepted
    pc,          \* pc[r]: where request r is in its handling
    resp,        \* resp[r]: the handler's return value, then the reply sent
    globals,     \* the module-level secrets of dependencies.py
    fetches,     \* fetches[n]: get_secret(n) calls the vault has received
    client,      \* client[r]: the MongoClient request r holds
    closes,      \* closes[r]: client.close() calls of request r
    exc,         \* exc[r]: the exception raised while handling r
    db           \* the up2d8 database: its collections

vars == <<draft, req, pc, resp, globals, fetches, client, closes, exc, db>>

(* ------------------------------ bounds --------------------------------- *)

MaxRequests == 3

MaxDbRequests == 2

Reqs == DOMAIN pc

Drafts == {"main", "api"}

(* uuid4 values create_user of api/users.py can draw *)
Uuids == {"uuid-1", "uuid-2"}

UserIds == Uuids \cup {"some_user_id"}

SessionIds == {"mock_session_id", "some_session_id"}

Contents == {"Hello", "hi"}

Titles == {"t"}

Emails == {"a@b.com", "not-an-email"}

TopicLists == {<<"y">>}

PreferenceMaps == {[newsletter_format |-> "detailed"]}

ArticleIds == {"a1", "a2"}

(* ------------------------- requests and replies ------------------------ *)

NoRequest == [kind |-> "none"]

NoResponse == [status |-> 0]

EmptyBody == [k \in {} |-> TRUE]

Response(status, body) == [status |-> status, body |-> body]

NotFound == Response(404, [detail |-> "Not Found"])

Unprocessable == Response(422, [detail |-> "validation error"])

(* EmailStr of api/users.py: a local part, one @, a dotted domain *)
ValidEmail(email) == email \in {"a@b.com"}

(* seconds after 2025-11-03T12:00:00Z of the timestamps the handlers use *)
Epoch(ts) ==
    CASE ts = "2025-11-03T12:00:00Z" -> 0
      [] ts = "2025-11-03T12:00:01Z" -> 1
      [] ts = "2025-11-03T12:00:02Z" -> 2
      [] ts = "2025-11-03T12:00:03Z" -> 3

(* ------------------------------ main.py -------------------------------- *)

(* class User: email: str, topics: List[str]; any string is an email *)
main_create_user(user) ==
    Response(200, [message |-> "Subscription confirmed.", user_id |-> "some_user_id"])

(* class UserUpdate: topics and preferences are both required fields *)
main_update_user(user_id, user) ==
    IF {"topics", "preferences"} \subseteq DOMAIN user
    THEN Response(200, [message |-> "Preferences updated."])
    ELSE Unprocessable

main_get_sessions(user_id) ==
    Response(200, << [session_id |-> "some_session_id",
                      title |-> "Example Session",
                      created_at |-> "2025-11-03T12:00:00Z"] >>)

main_get_messages(session_id) ==
    Response(200, << [message_id |-> "some_message_id",
                      role |-> "user",
                      content |-> "Hello",
                      timestamp |-> "2025-11-03T12:00:00Z"],
                     [message_id |-> "some_other_message_id",
                      role |-> "model",
                      content |-> "Hi there!",
                      timestamp |-> "2025-11-03T12:00:01Z"] >>)

main_create_message(session_id, message) ==
    Response(200, [user_message |->
                      [message_id |-> "new_user_message_id",
                       role |-> "user",
                       content |-> message.content,
                       timestamp |-> "2025-11-03T12:00:02Z"],
                   model_message |->
                      [message_id |-> "new_model_message_id",
                       role |-> "model",
                       content |-> "This is a new response from the model.",
                       timestamp |-> "2025-11-03T12:00:03Z"]])

(* main.py registers no POST /api/sessions route *)
main_create_session(session_data) == NotFound

(* --------------------------- api/users.py ------------------------------ *)

users_create_user(user, uuid4) ==
    IF ValidEmail(user.email)
    THEN Response(200, [message |-> "Subscription confirmed.", user_id |-> uuid4])
    ELSE Unprocessable

(* class UserUpdate: topics and preferences both default to None *)
users_update_user(user_id, user_update) ==
    Response(200, [message |-> "Preferences updated."])

(* ---------------------------- api/chat.py ------------------------------ *)

chat_create_session(session_data) ==
    Response(200, [session_id |-> "mock_session_id"])

(* mutant: the listing names a session other than the one create_session returns *)
chat_get_sessions_other(user_id) ==
    Response(200, << [session_id |-> "some_session_id",
                      user_id |-> user_id,
                      title |-> "Mock Session",
                      created_at |-> "2023-01-01T00:00:00Z"] >>)

chat_get_sessions(user_id) ==
    Response(200, << [session_id |-> "mock_session_id",
                      user_id |-> user_id,
                      title |-> "Mock Session",
                      created_at |-> "2023-01-01T00:00:00Z"] >>)

chat_send_message(session_id, message_content) ==
    Response(200, [message |-> "Message sent."])

chat_get_messages(session_id) ==
    Response(200, << [role |-> "user", content |-> "Hello"],
                     [role |-> "model", content |-> "This is a mocked response."] >>)

(* --------------------------- dependencies.py --------------------------- *)

(* the vault names initialize_secrets asks for, in the order it asks *)
SecretNames ==
    << "COSMOS-DB-CONNECTION-STRING-UP2D8",
       "UP2D8-GEMINI-API-Key",
       "UP2D8-SMTP-KEY",
       "GOOGLE-CLIENT-ID",
       "GOOGLE-CLIENT-SECRET" >>

(* the module-level names initialize_secrets assigns, and the vault name of each *)
GlobalSecret ==
    [ GEMINI_API_KEY |-> "UP2D8-GEMINI-API-Key",
      SMTP_KEY |-> "UP2D8-SMTP-KEY",
      GOOGLE_CLIENT_ID |-> "GOOGLE-CLIENT-ID",
      GOOGLE_CLIENT_SECRET |-> "GOOGLE-CLIENT-SECRET" ]

(* KeyVaultClient.get_secret(name): the value the vault holds under name *)
get_secret(name) == <<"value of", name>>

(* mutant: the secrets are fetched only while the globals are unset *)
initialize_secrets_cached(failed) ==
    IF globals.GEMINI_API_KEY # <<"None">>
    THEN {}
    ELSE {SecretNames[i] : i \in {j \in 1..Len(SecretNames) : failed = 0 \/ j <= failed}}

(* the get_secret calls one run of initialize_secrets makes when its
   failed-th call raises (failed = 0: none raises): every name up to and
   including the failing one, all five when none fails; the globals play
   no part in the decision *)
initialize_secrets(failed) ==
    {SecretNames[i] : i \in {j \in 1..Len(SecretNames) : failed = 0 \/ j <= failed}}

(* mutant: a ConnectionFailure is swallowed and an empty result returned *)
get_db_client_except_masked(e, returned) ==
    CASE e = "none" -> returned
      [] e = "ConnectionFailure" -> Response(200, {})
      [] e = "HTTPException404" ->
            Response(404, [detail |-> "Article not found."])
      [] OTHER -> Response(500, [detail |-> "Internal Server Error"])

(* the except clause of get_db_client: the reply for the exception e raised
   at or before the yield, `returned` being the handler's return value *)
get_db_client_except(e, returned) ==
    CASE e = "none" -> returned
      [] e = "ConnectionFailure" ->
            Response(500, [detail |-> "Failed to connect to MongoDB"])
      [] e = "HTTPException404" ->
            Response(404, [detail |-> "Article not found."])
      [] OTHER -> Response(500, [detail |-> "Internal Server Error"])

(* mutant: the client is closed only when the handler returned normally *)
get_db_client_finally_on_return(c, e) ==
    IF c = "open" /\ e = "none" THEN "closed" ELSE c

(* the finally clause of get_db_client: `if client: client.close()`, on
   every way out of the try block *)
get_db_client_finally(c, e) == IF c = "open" THEN "closed" ELSE c

(* ---------------------------- api/articles.py -------------------------- *)

get_articles(database) ==
    Response(200, database.articles)

get_article(article_id, database) ==
    IF article_id \in database.articles
    THEN Response(200, [id |-> article_id])
    ELSE NoResponse

(* ------------------------- the routes of a draft ----------------------- *)

(* user ids a POST /api/users has returned so far *)
IssuedUserIds ==
    {resp[r].body.user_id :
        r \in {q \in Reqs : /\ req[q].kind = "create_user"
                            /\ pc[q] = "done"
                            /\ resp[q].status = 200}}

(* what GET /api/sessions/{session_id}/messages answers *)
ListMessages(session_id) ==
    IF draft = "main" THEN main_get_messages(session_id)
                      ELSE chat_get_messages(session_id)

(* what GET /api/users/{user_id}/sessions answers *)
ListSessions(user_id) ==
    IF draft = "main" THEN main_get_sessions(user_id)
                      ELSE chat_get_sessions(user_id)

ChatRequests ==
    [kind : {"create_user"}, email : Emails, topics : {<<"x">>}]
    \cup [kind : {"create_session"}, user_id : UserIds, title : Titles]
    \cup [kind : {"get_sessions"}, user_id : UserIds]
    \cup [kind : {"create_message"}, session_id : SessionIds, content : Contents]
    \cup [kind : {"get_messages"}, session_id : SessionIds]

(* PUT bodies: each of topics and preferences is present or left out *)
UpdateBodies ==
    {EmptyBody}
    \cup [topics : TopicLists]
    \cup [preferences : PreferenceMaps]
    \cup [topics : TopicLists, preferences : PreferenceMaps]

UserRequests ==
    [kind : {"create_user"}, email : Emails, topics : {<<"x">>}]
    \cup [kind : {"update_user"}, user_id : UserIds, body : UpdateBodies]

DbRequests ==
    [kind : {"get_articles"}]
    \cup [kind : {"get_article"}, article_id : ArticleIds]

(* the state after import: no request yet, the secrets unset, an empty
   users collection (no code of the repository inserts into it) *)
InitFor(R) ==
    /\ draft \in Drafts
    /\ req = [r \in R |-> NoRequest]
    /\ pc = [r \in R |-> "idle"]
    /\ resp = [r \in R |-> NoResponse]
    /\ globals = [g \in DOMAIN GlobalSecret |-> <<"None">>]
    /\ fetches = [i \in 1..Len(SecretNames) |-> 0]
    /\ client = [r \in R |-> "none"]
    /\ closes = [r \in R |-> 0]
    /\ exc = [r \in R |-> "none"]
    /\ db \in [articles : SUBSET ArticleIds, users : {EmptyBody}]

Init == InitFor(1..MaxRequests) /\ db.articles = {}

DbUnchanged == UNCHANGED <<globals, fetches, client, closes, exc, db>>

(* a request arrives and its body parses; requests are numbered in the
   order the server accepts them *)
Accept(r, request) ==
    /\ pc[r] = "idle"
    /\ \A q \in Reqs : q < r => pc[q] # "idle"
    /\ req' = [req EXCEPT ![r] = request]
    /\ pc' = [pc EXCEPT ![r] = "accepted"]
    /\ UNCHANGED <<draft, resp>>
    /\ DbUnchanged

(* a stub handler returns and the reply is sent; it touches no state *)
Reply(r, response) ==
    /\ resp' = [resp EXCEPT ![r] = response]
    /\ pc' = [pc EXCEPT ![r] = "done"]
    /\ UNCHANGED <<draft, req>>
    /\ DbUnchanged

AcceptChat(r) == \E request \in ChatRequests : Accept(r, request)

AcceptUser(r) == \E request \in UserRequests : Accept(r, request)

AcceptDb(r) == \E request \in DbRequests : Accept(r, request)

CreateUser(r) ==
    /\ pc[r] = "accepted"
    /\ req[r].kind = "create_user"
    /\ IF draft = "main"
       THEN Reply(r, main_create_user(req[r]))
       ELSE \E uuid4 \in Uuids \ IssuedUserIds :
                Reply(r, users_create_user(req[r], uuid4))

UpdateUser(r) ==
    /\ pc[r] = "accepted"
    /\ req[r].kind = "update_user"
    /\ Reply(r, IF draft = "main"
                THEN main_update_user(req[r].user_id, req[r].body)
                ELSE users_update_user(req[r].user_id, req[r].body))

CreateSession(r) ==
    /\ pc[r] = "accepted"
    /\ req[r].kind = "create_session"
    /\ Reply(r, IF draft = "main" THEN main_create_session(req[r])
                                  ELSE chat_create_session(req[r]))

GetSessions(r) ==
    /\ pc[r] = "accepted"
    /\ req[r].kind = "get_sessions"
    /\ Reply(r, ListSessions(req[r].user_id))

CreateMessage(r) ==
    /\ pc[r] = "accepted"
    /\ req[r].kind = "create_message"
    /\ Reply(r, IF draft = "main"
                THEN main_create_message(req[r].session_id, req[r])
                ELSE chat_send_message(req[r].session_id, req[r]))

GetMessages(r) ==
    /\ pc[r] = "accepted"
    /\ req[r].kind = "get_messages"
    /\ Reply(r, ListMessages(req[r].session_id))

(* ------------------ a request through get_db_client -------------------- *)

(* line 40: initialize_secrets(); a get_secret that raises ends the request
   before the try block is entered *)
InitializeSecrets(r) ==
    /\ pc[r] = "accepted"
    /\ \E failed \in 0..Len(SecretNames) :
        /\ fetches' = [i \in DOMAIN fetches |->
                          IF SecretNames[i] \in initialize_secrets(failed)
                          THEN fetches[i] + 1 ELSE fetches[i]]
        /\ IF failed = 0
           THEN /\ globals' = [g \in DOMAIN globals |-> get_secret(GlobalSecret[g])]
                /\ pc' = [pc EXCEPT ![r] = "try"]
                /\ UNCHANGED <<exc, resp>>
           ELSE /\ exc' = [exc EXCEPT ![r] = "SecretUnavailable"]
                /\ resp' = [resp EXCEPT ![r] = get_db_client_except("SecretUnavailable", NoResponse)]
                /\ pc' = [pc EXCEPT ![r] = "done"]
                /\ UNCHANGED globals
    /\ UNCHANGED <<draft, req, client, closes, db>>

(* lines 44-46: MongoClient(...) and the yield, or the constructor raises *)
OpenClient(r) ==
    /\ pc[r] = "try"
    /\ \E outcome \in {"none", "ConnectionFailure", "ConfigurationError"} :
        /\ exc' = [exc EXCEPT ![r] = outcome]
        /\ client' = [client EXCEPT ![r] = IF outcome = "none" THEN "open" ELSE "none"]
        /\ pc' = [pc EXCEPT ![r] = IF outcome = "none" THEN "yield" ELSE "finally"]
    /\ UNCHANGED <<draft, req, resp, globals, fetches, closes, db>>

(* the route handler runs on the yielded db; what it raises is thrown
   back into get_db_client at the yield *)
GetArticles(r) ==
    /\ pc[r] = "yield"
    /\ req[r].kind = "get_articles"
    /\ \E outcome \in {"none", "ConnectionFailure", "OperationFailure"} :
        /\ exc' = [exc EXCEPT ![r] = outcome]
        /\ resp' = [resp EXCEPT ![r] =
                      IF outcome = "none" THEN get_articles(db) ELSE NoResponse]
    /\ pc' = [pc EXCEPT ![r] = "finally"]
    /\ UNCHANGED <<draft, req, globals, fetches, client, closes, db>>

GetArticle(r) ==
    /\ pc[r] = "yield"
    /\ req[r].kind = "get_article"
    /\ \E outcome \in {"none", "ConnectionFailure", "OperationFailure"} :
        LET returned == IF outcome = "none"
                        THEN get_article(req[r].article_id, db)
                        ELSE NoResponse
        IN  /\ exc' = [exc EXCEPT ![r] =
                          IF outcome = "none" /\ returned = NoResponse
                          THEN "HTTPException404" ELSE outcome]
            /\ resp' = [resp EXCEPT ![r] = returned]
    /\ pc' = [pc EXCEPT ![r] = "finally"]
    /\ UNCHANGED <<draft, req, globals, fetches, client, closes, db>>

(* lines 47-52: the except and finally clauses, then the reply *)
CloseClient(r) ==
    /\ pc[r] = "finally"
    /\ client' = [client EXCEPT ![r] = get_db_client_finally(client[r], exc[r])]
    /\ closes' = [closes EXCEPT ![r] =
                     IF client'[r] # client[r] THEN closes[r] + 1 ELSE closes[r]]
    /\ resp' = [resp EXCEPT ![r] = get_db_client_except(exc[r], resp[r])]
    /\ pc' = [pc EXCEPT ![r] = "done"]
    /\ UNCHANGED <<draft, req, globals, fetches, exc, db>>

(* ---------------------------- specifications --------------------------- *)

(* the session and message routes *)
Next ==
    \/ \E r \in Reqs : AcceptChat(r)
    \/ \E r \in Reqs : CreateUser(r)
    \/ \E r \in Reqs : CreateSession(r)
    \/ \E r \in Reqs : GetSessions(r)
    \/ \E r \in Reqs : CreateMessage(r)
    \/ \E r \in Reqs : GetMessages(r)

Spec == Init /\ [][Next]_vars

(* the user routes *)
NextUsers ==
    \/ \E r \in Reqs : AcceptUser(r)
    \/ \E r \in Reqs : CreateUser(r)
    \/ \E r \in Reqs : UpdateUser(r)

SpecUsers == Init /\ [][NextUsers]_vars

(* the article routes, which depend on get_db_client *)
InitDb == InitFor(1..MaxDbRequests)

NextDb ==
    \/ \E r \in Reqs : AcceptDb(r)
    \/ \E r \in Reqs : InitializeSecrets(r)
    \/ \E r \in Reqs : OpenClient(r)
    \/ \E r \in Reqs : GetArticles(r)
    \/ \E r \in Reqs : GetArticle(r)
    \/ \E r \in Reqs : CloseClient(r)

SpecDb == InitDb /\ [][NextDb]_vars

(* ------------------------------- claims -------------------------------- *)

Done(r, kind) == pc[r] = "done" /\ req[r].kind = kind

Ok(r, kind) == Done(r, kind) /\ resp[r].status = 200

(* the sessions the service has answered for: those POST /api/sessions
   returned, and those it lists for a user it issued *)
ExistingSessionIds ==
    {resp[r].body.session_id : r \in {q \in Reqs : Ok(q, "create_session")}}
    \cup UNION {{ListSessions(u).body[i].session_id :
                    i \in 1..Len(ListSessions(u).body)} : u \in IssuedUserIds}

HasPair(r) == {"user_message", "model_message"} \subseteq DOMAIN resp[r].body

HasTimestamp(m) == "timestamp" \in DOMAIN m

(* C1: every append on an existing session that returns 200 makes the
   sequence listMessages returns for that session longer by exactly 2. *)
C1_AppendAddsPair ==
    [][\A r \in Reqs :
        ( /\ pc[r] = "accepted"
          /\ req[r].kind = "create_message"
          /\ req[r].session_id \in ExistingSessionIds
          /\ pc'[r] = "done"
          /\ resp'[r].status = 200 )
        => Len(ListMessages(req[r].session_id).body)'
             = Len(ListMessages(req[r].session_id).body) + 2]_vars

(* the log of session s holds the pairs of r1 and r2, r1's wholly first *)
StoredInOrder(s, r1, r2) ==
    LET log == ListMessages(s).body
        User(i, r) == log[i].role = "user" /\ log[i].content = req[r].content
        Model(i) == log[i].role = "model"
    IN  \E i, k \in 1..Len(log) :
            /\ i + 1 < k
            /\ k + 1 <= Len(log)
            /\ User(i, r1) /\ Model(i + 1)
            /\ User(k, r2) /\ Model(k + 1)

(* C2: of two concurrent appends on one session, the pair of the call
   accepted first is stored, and timestamped, wholly before the pair of
   the call accepted second.  Requests are numbered in acceptance order,
   so r1 < r2 still in flight when r2 is done ran concurrently with r2;
   the step below is the one that completes r1. *)
C2_ConcurrentAppendsOrdered ==
    [][\A r1, r2 \in Reqs :
        ( /\ r1 < r2
          /\ pc[r1] = "accepted"
          /\ req[r1].kind = "create_message"
          /\ Ok(r2, "create_message")
          /\ req[r1].session_id = req[r2].session_id
          /\ req[r1].session_id \in ExistingSessionIds
          /\ pc'[r1] = "done"
          /\ resp'[r1].status = 200 )
        => /\ HasPair(r1)'
           /\ HasPair(r2)'
           /\ Epoch(resp'[r1].body.model_message.timestamp)
                < Epoch(resp'[r2].body.user_message.timestamp)
           /\ StoredInOrder(req[r1].session_id, r1, r2)']_vars

(* C4: every answer of listMessages is in non-decreasing timestamp order
   with every model message timestamped strictly after the user message
   before it, and the pair an append returns is so ordered too. *)
C4_TimestampOrder ==
    /\ \A r \in Reqs :
        Ok(r, "get_messages") =>
            LET log == resp[r].body
            IN  /\ \A i \in 1..Len(log) : HasTimestamp(log[i])
                /\ \A i, j \in 1..Len(log) :
                      i < j => Epoch(log[i].timestamp) <= Epoch(log[j].timestamp)
                /\ \A i \in 2..Len(log) :
                      (log[i].role = "model" /\ log[i - 1].role = "user")
                      => Epoch(log[i].timestamp) > Epoch(log[i - 1].timestamp)
    /\ \A r \in Reqs :
        (Ok(r, "create_message") /\ HasPair(r))
        => Epoch(resp[r].body.model_message.timestamp)
             > Epoch(resp[r].body.user_message.timestamp)

(* the requests that created a session for user u *)
CreatedFor(u) ==
    {r \in Reqs : Ok(r, "create_session") /\ req[r].user_id = u /\ req[r].title # ""}

(* C5: once createSession(user_id, title) has returned session_id s for
   an existing user, listSessions(user_id) contains a session with id s,
   and exactly that one when the user has created exactly one session. *)
C5_CreatedSessionListed ==
    \A u \in IssuedUserIds :
        \A r \in CreatedFor(u) :
            LET listed == ListSessions(u)
            IN  /\ listed.status = 200
                /\ \E i \in 1..Len(listed.body) :
                      listed.body[i].session_id = resp[r].body.session_id
                /\ Cardinality(CreatedFor(u)) = 1 => Len(listed.body) = 1

C5_Witness ==
    \E u \in IssuedUserIds :
        /\ Cardinality(CreatedFor(u)) = 1
        /\ \E q \in Reqs : Ok(q, "get_sessions") /\ req[q].user_id = u

(* C6: createSession with a user_id no POST /api/users has returned
   answers 404. *)
C6_UnknownUserRejected ==
    \A r \in Reqs :
        (Done(r, "create_session") /\ req[r].user_id \notin IssuedUserIds)
        => resp[r].status = 404

(* C7: an update of an existing user that supplies only topics, or only
   preferences, replaces that stored field with the supplied value and
   leaves the stored value of the omitted field as it was. *)
C7_ShallowMerge ==
    [][\A r \in Reqs :
        ( /\ pc[r] = "accepted"
          /\ req[r].kind = "update_user"
          /\ req[r].user_id \in IssuedUserIds
          /\ Cardinality(DOMAIN req[r].body) = 1
          /\ pc'[r] = "done" )
        => LET u == req[r].user_id
               body == req[r].body
           IN  \A field \in {"topics", "preferences"} :
                 IF field \in DOMAIN body
                 THEN /\ u \in DOMAIN db'.users
                      /\ db'.users[u][field] = body[field]
                 ELSE u \in DOMAIN db.users
                      => /\ u \in DOMAIN db'.users
                         /\ db'.users[u][field] = db.users[u][field]]_vars

(* the requests whose initialize_secrets has run, and those it ran to the end for *)
RanInitializeSecrets == {r \in Reqs : pc[r] \notin {"idle", "accepted"}}

SecretsFetched == {r \in RanInitializeSecrets : exc[r] # "SecretUnavailable"}

StorageFailures == {"ConnectionFailure", "OperationFailure", "ConfigurationError"}

(* C9: a request through get_db_client during which the storage
   connection failed is answered with a 5xx, and no step writes the
   database. *)
C9_StorageFailureSurfaces ==
    /\ [](\A r \in Reqs :
            (pc[r] = "done" /\ exc[r] \in StorageFailures)
            => resp[r].status >= 500 /\ resp[r].status <= 599)
    /\ [][db' = db]_vars

C9_Witness ==
    \E r1, r2 \in Reqs :
        /\ pc[r1] = "done" /\ exc[r1] = "ConnectionFailure" /\ client[r1] = "none"
        /\ pc[r2] = "done" /\ exc[r2] = "ConnectionFailure" /\ client[r2] = "closed"

(* C10: a MongoClient a request opened is closed exactly once by the time
   the request is done, however the handler ended; a client is open only
   while its request is between the yield and the finally clause, so none
   is open once every request is done. *)
C10_ClientsClosed ==
    /\ \A r \in Reqs :
          /\ closes[r] <= 1
          /\ client[r] = "open" => pc[r] \in {"yield", "finally"}
          /\ pc[r] = "done" => (client[r] = "closed" <=> closes[r] = 1)
          /\ (pc[r] = "done" /\ exc[r] \in {"none", "HTTPException404", "OperationFailure"})
             => closes[r] = 1
    /\ (\A r \in Reqs : pc[r] \in {"idle", "done"})
       => {r \in Reqs : client[r] = "open"} = {}

C10_Witness ==
    \E r1, r2 \in Reqs :
        /\ r1 < r2
        /\ pc[r1] = "finally" /\ exc[r1] = "HTTPException404" /\ client[r1] = "open"
        /\ pc[r2] = "done" /\ exc[r2] = "ConnectionFailure" /\ closes[r2] = 1

====
